---- MODULE Spec2Model ----
(***************************************************************************)
(* Model of pyfda/input_widgets/freq_units.py: the FreqUnits widget and    *)
(* the keys of the shared filter dictionary fb.fil[0] it writes.           *)
(*                                                                         *)
(* Every Qt handler runs to completion on the GUI thread, so each handler  *)
(* is one action.  A Python exception ends the handler at the raising      *)
(* line: the assignments before it stay, the statements after it are       *)
(* skipped, and the event loop goes on with the next event.                *)
(*                                                                         *)
(* Numbers: sampling frequencies are positive integers (integer-valued     *)
(* floats); T_S and the axis limits are exact fractions <<num, den>>.      *)
(* Texts of the line edit are records [repr, ok, val]: which conversion    *)
(* produced the text, whether it parses, and the number it denotes.        *)
(***************************************************************************)
EXTENDS Integers, Sequences, FiniteSets, TLC

\* ---------------------------------------------------------------- bounds
\* user-typed integer texts range over 0 .. MaxTyped (plus BigTyped)
MaxTyped == 2

\* a typed value with more than three significant digits
BigTyped == 1234

\* fb.fil[0]['f_S'] before the widget is constructed
InitFs == {1000}

\* ------------------------------------------------------------- constants
N_FFT == 2048

f_units == <<"k", "f_S", "f_Ny", "Hz", "kHz", "MHz", "GHz">>

t_units == <<"", "", "", "s", "ms", "$\\mu$s", "ns">>

fRanges == <<"half", "whole", "sym">>

Normalized == {"f_S", "f_Ny", "k"}

sender == "pyfda.input_widgets.freq_units"

None == <<>>

\* ------------------------------------------------------------ arithmetic
\* 1./v for a positive integer v
Recip(v) == <<1, v>>

\* v/2. for a non-negative integer v
Half(v) == IF v % 2 = 0 THEN <<v \div 2, 1>> ELSE <<v, 2>>

\* -q for a fraction q
Neg(q) == <<0 - q[1], q[2]>>

\* ------------------------------------------------------- text conversion
\* str(x): shortest repr that round-trips the float
str(v) == [repr |-> "str", ok |-> TRUE, val |-> v]

\* value of '{:.3g}' for a positive integer below 10000: three significant
\* digits, ties to even
Round3(v) ==
    IF v < 1000 THEN v
    ELSE LET q == v \div 10
             r == v % 10
         IN IF r > 5 \/ (r = 5 /\ q % 2 = 1) THEN (q + 1) * 10 ELSE q * 10

\* params['FMT'].format(x)
FMT(v) == [repr |-> "FMT", ok |-> TRUE, val |-> Round3(v)]

\* what the user can type into the field
TypedTexts ==
    {[repr |-> "typed", ok |-> TRUE, val |-> n] : n \in (0..MaxTyped) \cup {BigTyped}}
    \cup {[repr |-> "typed", ok |-> FALSE, val |-> 0]}

\* safe_eval(expr, alt_expr, sign='pos'): the value of expr when it parses
\* and is positive, the fallback otherwise
safe_eval(text, alt) == IF text.ok /\ text.val > 0 THEN text.val ELSE alt

Msg(kind, tag) ==
    IF kind = "view_changed" THEN [sender |-> sender, view_changed |-> tag]
    ELSE [sender |-> sender, specs_changed |-> tag]

\* qget_cmb_box(self.cmbFRange): the data of the current item
qget_cmb_box(idx) == fRanges[idx + 1]

\* --------------------------------------------------------- _freq_range
\* the axis limits for a range type and f_max
f_lim(rangeType, f_max) ==
    IF rangeType = "whole" THEN <<(<<0, 1>>), (<<f_max, 1>>)>>
    ELSE IF rangeType = "sym" THEN <<Neg(Half(f_max)), Half(f_max)>>
    ELSE <<(<<0, 1>>), Half(f_max)>>

\* ----------------------------------------------------------- fb.fil[0]
\* the shared dictionary before the widget is constructed
fb_fil0(fs, rtype) ==
    [f_S |-> fs, f_S_locked |-> None, f_max |-> fs, T_S |-> Recip(fs),
     f_S_scale |-> 1, freq_specs_unit |-> "f_S",
     freqSpecsRangeType |-> rtype, freqSpecsRange |-> f_lim(rtype, fs),
     freq_specs_sort |-> TRUE,
     plt_fUnit |-> "f_S", plt_tUnit |-> "s", plt_fLabel |-> "f", plt_tLabel |-> "t"]

\* Python values handed to _freq_range as emit: a bool from the callers in
\* this file, the new index (an int) from currentIndexChanged
PyBool(b) == [type |-> "bool", val |-> b]

PyInt(i) == [type |-> "int", val |-> i # 0]

\* variant of freq_range: emit is tested as handed in, an int by its truth
\* value
freq_range_Truthy(f, range_idx, emit) ==
    LET rangeType == qget_cmb_box(range_idx)
    IN [fil |-> [f EXCEPT !.freqSpecsRangeType = rangeType,
                          !.freqSpecsRange = f_lim(rangeType, f.f_max)],
        sig |-> IF emit.val THEN <<Msg("view_changed", "f_range")>> ELSE <<>>]

\* _freq_range: the dictionary and the notifications it leaves; val is the
\* truth value of emit, and an int is replaced by True first
freq_range(f, range_idx, emit) ==
    LET rangeType == qget_cmb_box(range_idx)
        e == IF emit.type = "int" THEN TRUE ELSE emit.val
    IN [fil |-> [f EXCEPT !.freqSpecsRangeType = rangeType,
                          !.freqSpecsRange = f_lim(rangeType, f.f_max)],
        sig |-> IF e THEN <<Msg("view_changed", "f_range")>> ELSE <<>>]

\* ----------------------------------------------------------- update_UI
\* variant of NormSettings: the chained assignment of the f_Ny branch
\* reaches f_S only
NormSettings_NyFmaxLost(f_unit) ==
    IF f_unit = "f_S" THEN [f_S |-> 1, f_max |-> 1, T_S |-> <<1, 1>>]
    ELSE IF f_unit = "f_Ny" THEN [f_S |-> 2, f_max |-> 1, T_S |-> <<1, 1>>]
    ELSE [f_S |-> 1, f_max |-> N_FFT, T_S |-> <<1, 1>>]

\* variant of NormSettings: the k branch sets f_max like the f_S branch
NormSettings_KLikeFs(f_unit) ==
    IF f_unit = "f_S" THEN [f_S |-> 1, f_max |-> 1, T_S |-> <<1, 1>>]
    ELSE IF f_unit = "f_Ny" THEN [f_S |-> 2, f_max |-> 2, T_S |-> <<1, 1>>]
    ELSE [f_S |-> 1, f_max |-> 1, T_S |-> <<1, 1>>]

\* f_S, f_max, T_S written for a normalized unit
NormSettings(f_unit) ==
    IF f_unit = "f_S" THEN [f_S |-> 1, f_max |-> 1, T_S |-> <<1, 1>>]
    ELSE IF f_unit = "f_Ny" THEN [f_S |-> 2, f_max |-> 2, T_S |-> <<1, 1>>]
    ELSE [f_S |-> 1, f_max |-> N_FFT, T_S |-> <<1, 1>>]

\* variant of RestoreFs: f_max is not restored
RestoreFs_FmaxKept(f, old) ==
    IF f.freq_specs_unit \in Normalized
    THEN [f EXCEPT !.f_S = old, !.T_S = Recip(old)]
    ELSE f

\* variant of RestoreFs: T_S is not recomputed
RestoreFs_TsKept(f, old) ==
    IF f.freq_specs_unit \in Normalized
    THEN [f EXCEPT !.f_S = old, !.f_max = old]
    ELSE f

\* variant of RestoreFs: the previous unit is not looked at
RestoreFs_Always(f, old) ==
    [f EXCEPT !.f_S = old, !.f_max = old, !.T_S = Recip(old)]

\* restore of the sampling frequency when the previous unit was normalized
RestoreFs(f, old) ==
    IF f.freq_specs_unit \in Normalized
    THEN [f EXCEPT !.f_S = old, !.f_max = old, !.T_S = Recip(old)]
    ELSE f

f_S_scale(f_unit) ==
    IF f_unit = "Hz" THEN 1
    ELSE IF f_unit = "kHz" THEN 1000
    ELSE IF f_unit = "MHz" THEN 1000000
    ELSE IF f_unit = "GHz" THEN 1000000000
    ELSE 1

f_label(f_unit) ==
    IF f_unit = "f_S"
    THEN "$F = f\\, /\\, f_S = \\Omega \\, /\\,  2 \\mathrm{\\pi} \\; \\rightarrow$"
    ELSE IF f_unit = "f_Ny"
    THEN "$F = 2f \\, / \\, f_S = \\Omega \\, / \\, \\mathrm{\\pi} \\; \\rightarrow$"
    ELSE IF f_unit = "k" THEN "$k \\; \\rightarrow$"
    ELSE "$f$ in " \o f_unit \o "$\\; \\rightarrow$"

t_label(units_idx) ==
    IF f_units[units_idx + 1] \in Normalized THEN "$n \\; \\rightarrow$"
    ELSE "$t$ in " \o t_units[units_idx + 1] \o "$\\; \\rightarrow$"

plt_f_unit(f_unit) == IF f_unit = "k" THEN "f_S" ELSE f_unit

\* update_UI on dictionary f, restore point old, field text txt and the two
\* combo box indices.  In the normalized branch the local idx is never
\* bound, so reading self.t_units[idx] raises UnboundLocalError: the keys
\* written before that line keep their new values, plt_tUnit, the labels,
\* _freq_range and the emit are skipped.
update_UI(f, old, txt, units_idx, range_idx) ==
    LET f_unit == f_units[units_idx + 1]
        is_normalized_freq == f_unit \in Normalized
    IN IF is_normalized_freq
       THEN LET n == NormSettings(f_unit)
                f1 == [f EXCEPT !.f_S = n.f_S, !.f_max = n.f_max, !.T_S = n.T_S]
            IN [fil |-> [f1 EXCEPT !.f_S_scale = 1,
                                   !.freq_specs_unit = f_unit,
                                   !.plt_fUnit = plt_f_unit(f_unit)],
                fs_old |-> f.f_S,
                text |-> FMT(f1.f_S),
                visible |-> FALSE,
                sig |-> <<>>,
                raised |-> TRUE]
       ELSE LET f1 == RestoreFs(f, old)
                f2 == [f1 EXCEPT !.f_S_scale = f_S_scale(f_unit),
                                 !.freq_specs_unit = f_unit,
                                 !.plt_fUnit = plt_f_unit(f_unit),
                                 !.plt_tUnit = t_units[units_idx + 1],
                                 !.plt_fLabel = f_label(f_unit),
                                 !.plt_tLabel = t_label(units_idx)]
                r == freq_range(f2, range_idx, PyBool(FALSE))
            IN [fil |-> r.fil,
                fs_old |-> old,
                text |-> IF f.freq_specs_unit \in Normalized THEN FMT(f1.f_S) ELSE txt,
                visible |-> TRUE,
                sig |-> r.sig \o <<Msg("view_changed", "f_unit")>>,
                raised |-> FALSE]

\* ---------------------------------------------------------------- state
VARIABLES
    fil,          \* fb.fil[0], the keys this widget reads or writes
    fs_old,       \* self.fs_old
    spec_edited,  \* self.spec_edited
    cmbUnits,     \* self.cmbUnits.currentIndex()
    cmbFRange,    \* self.cmbFRange.currentIndex()
    butLock,      \* self.butLock.isChecked()
    butSort,      \* self.butSort.isChecked()
    ledF_S,       \* self.ledF_S: [text, visible, focus]
    sig_tx,       \* notifications emitted by the handler that ran last
    last,         \* the handler that ran last: [op, arg, stored, raised]
    rt,           \* history: progress of an absolute/normalized/absolute round trip
    lockedOk,     \* history: since the lock button last became checked,
                  \* f_S_locked has held the f_S of that moment
    hist          \* history: progress of the event sequences of History

vars == <<fil, fs_old, spec_edited, cmbUnits, cmbFRange, butLock, butSort,
          ledF_S, sig_tx, last, rt, lockedOk, hist>>

NoTrip == [phase |-> 0, unit |-> 0, f_S |-> 0]

NoChain == [phase |-> 0, f_S |-> 0]

NoHist == [sc |-> 0, esc |-> 0, ent |-> 0, chain |-> NoChain]

Ev(op, arg, stored, raised) ==
    [op |-> op, arg |-> arg, stored |-> stored, raised |-> raised]

\* __init__ and _construct_UI: fs_old and the field text are taken from the
\* dictionary, the unit combo box is at index 1, the range combo box at 0,
\* both buttons are checked, and update_UI runs once
Init ==
    \E fs0 \in InitFs, rtype \in {fRanges[i] : i \in 1..3} :
        LET u == update_UI(fb_fil0(fs0, rtype), fs0, str(fs0), 1, 0)
        IN /\ fil = u.fil
           /\ fs_old = u.fs_old
           /\ spec_edited = FALSE
           /\ cmbUnits = 1
           /\ cmbFRange = 0
           /\ butLock = TRUE
           /\ butSort = TRUE
           /\ ledF_S = [text |-> u.text, visible |-> u.visible, focus |-> FALSE]
           /\ sig_tx = u.sig
           /\ last = Ev("__init__", "", FALSE, u.raised)
           /\ rt = NoTrip
           /\ lockedOk = (u.fil.f_S_locked = <<fs0>>)
           /\ hist = NoHist

\* history of the lock: a click that checks the button starts it with the
\* f_S of that moment, every other step keeps it while f_S_locked is unchanged
LockHistory ==
    lockedOk' = IF butLock' /\ ~butLock
                THEN fil'.f_S_locked = <<fil.f_S>>
                ELSE lockedOk /\ fil'.f_S_locked = fil.f_S_locked

\* history of event sequences, read off the step just taken:
\*   sc     1, 2, 3: the first events after the construction were the
\*          selection of f_Ny, then of Hz, then of range type sym
\*   esc    1: Escape was pressed with the edited flag set; 2: the next
\*          event was a FocusOut
\*   ent    1: Enter/Return was pressed and no key since; 2: the FocusOut
\*          that followed with no key press between
\*   chain  1: an absolute unit with f_S was left for a normalized one and
\*          only normalized units were selected since; 2: the selection of
\*          an absolute unit that ended the chain
History ==
    LET sel == last'.op = "update_UI" /\ last'.arg = "cmbUnits"
        wasAbs == f_units[cmbUnits + 1] \notin Normalized
        isAbs == f_units[cmbUnits' + 1] \notin Normalized
    IN hist' =
        [sc |-> IF last.op = "__init__" /\ sel /\ f_units[cmbUnits' + 1] = "f_Ny" THEN 1
                ELSE IF hist.sc = 1 /\ sel /\ f_units[cmbUnits' + 1] = "Hz" THEN 2
                ELSE IF hist.sc = 2 /\ last'.op = "_freq_range"
                        /\ fRanges[cmbFRange' + 1] = "sym" THEN 3
                ELSE 0,
         esc |-> IF last'.op = "KeyPress" /\ last'.arg = "Escape" /\ spec_edited THEN 1
                 ELSE IF hist.esc = 1 /\ last'.op = "FocusOut" THEN 2
                 ELSE 0,
         ent |-> IF last'.op = "KeyPress"
                 THEN (IF last'.arg = "Enter" THEN 1 ELSE 0)
                 ELSE IF hist.ent = 1
                 THEN (IF last'.op = "FocusOut" THEN 2 ELSE 1)
                 ELSE 0,
         chain |-> IF ~sel THEN NoChain
                   ELSE IF wasAbs /\ ~isAbs THEN [phase |-> 1, f_S |-> fil.f_S]
                   ELSE IF hist.chain.phase = 1 /\ ~isAbs THEN hist.chain
                   ELSE IF hist.chain.phase = 1 /\ isAbs
                   THEN [hist.chain EXCEPT !.phase = 2]
                   ELSE NoChain]

\* the part of every update_UI call that is the same for all callers
RunUpdateUI(units_idx, arg) ==
    LET u == update_UI(fil, fs_old, ledF_S.text, units_idx, cmbFRange)
    IN /\ fil' = u.fil
       /\ fs_old' = u.fs_old
       /\ ledF_S' = [ledF_S EXCEPT !.text = u.text, !.visible = u.visible]
       /\ sig_tx' = u.sig
       /\ last' = Ev("update_UI", arg, FALSE, u.raised)

\* cmbUnits.currentIndexChanged: the user picks another unit
SelectUnit(idx) ==
    /\ ~ledF_S.focus
    /\ idx # cmbUnits
    /\ cmbUnits' = idx
    /\ RunUpdateUI(idx, "cmbUnits")
    /\ rt' = IF f_units[cmbUnits + 1] \notin Normalized /\ f_units[idx + 1] \in Normalized
             THEN [phase |-> 1, unit |-> cmbUnits, f_S |-> fil.f_S]
             ELSE IF rt.phase = 1 /\ idx = rt.unit
             THEN [rt EXCEPT !.phase = 2]
             ELSE NoTrip
    /\ UNCHANGED <<spec_edited, cmbFRange, butLock, butSort>>
    /\ LockHistory
    /\ History

\* butLock.clicked is connected to update_UI; the button is shown only for
\* absolute units and toggles before the signal is delivered
LockClick ==
    /\ ledF_S.visible
    /\ butLock' = ~butLock
    /\ RunUpdateUI(cmbUnits, "butLock")
    /\ rt' = NoTrip
    /\ UNCHANGED <<spec_edited, cmbUnits, cmbFRange, butSort>>
    /\ LockHistory
    /\ History

\* __main__: form.update_UI() right after the construction
MainUpdateUI ==
    /\ last.op = "__init__"
    /\ RunUpdateUI(cmbUnits, "__main__")
    /\ rt' = NoTrip
    /\ UNCHANGED <<spec_edited, cmbUnits, cmbFRange, butLock, butSort>>
    /\ LockHistory
    /\ History

\* cmbFRange.currentIndexChanged: _freq_range(idx), an int, so emit is True
SelectRange(idx) ==
    /\ ~ledF_S.focus
    /\ idx # cmbFRange
    /\ cmbFRange' = idx
    /\ LET r == freq_range(fil, idx, PyInt(idx))
       IN /\ fil' = r.fil
          /\ sig_tx' = r.sig
    /\ last' = Ev("_freq_range", "cmbFRange", FALSE, FALSE)
    /\ rt' = NoTrip
    /\ UNCHANGED <<fs_old, spec_edited, cmbUnits, butLock, butSort, ledF_S>>
    /\ LockHistory
    /\ History

\* variant of store_sort_flag: the notification does not depend on the state
store_sort_flag_AlwaysEmit ==
    /\ butSort' = ~butSort
    /\ fil' = [fil EXCEPT !.freq_specs_sort = butSort']
    /\ sig_tx' = <<Msg("specs_changed", "f_sort")>>
    /\ last' = Ev("_store_sort_flag", "butSort", FALSE, FALSE)
    /\ rt' = NoTrip
    /\ UNCHANGED <<fs_old, spec_edited, cmbUnits, cmbFRange, butLock, ledF_S>>
    /\ LockHistory
    /\ History

\* butSort.clicked: _store_sort_flag
store_sort_flag ==
    /\ butSort' = ~butSort
    /\ fil' = [fil EXCEPT !.freq_specs_sort = butSort']
    /\ sig_tx' = IF butSort' THEN <<Msg("specs_changed", "f_sort")>> ELSE <<>>
    /\ last' = Ev("_store_sort_flag", "butSort", FALSE, FALSE)
    /\ rt' = NoTrip
    /\ UNCHANGED <<fs_old, spec_edited, cmbUnits, cmbFRange, butLock, ledF_S>>
    /\ LockHistory
    /\ History

\* variant of store_entry: the axis range is not recomputed
store_entry_NoRange(f, edited, text, range_idx) ==
    IF edited
    THEN LET v == safe_eval(text, f.f_S)
         IN [fil |-> [f EXCEPT !.f_S = v, !.T_S = Recip(v), !.f_max = v],
             sig |-> <<Msg("view_changed", "f_S")>>,
             spec_edited |-> FALSE,
             stored |-> TRUE]
    ELSE [fil |-> f, sig |-> <<>>, spec_edited |-> edited, stored |-> FALSE]

\* variant of store_entry: the fallback handed to safe_eval is 1, not f_S
store_entry_Fallback1(f, edited, text, range_idx) ==
    IF edited
    THEN LET v == safe_eval(text, 1)
             f1 == [f EXCEPT !.f_S = v, !.T_S = Recip(v), !.f_max = v]
             r == freq_range(f1, range_idx, PyBool(FALSE))
         IN [fil |-> r.fil,
             sig |-> r.sig \o <<Msg("view_changed", "f_S")>>,
             spec_edited |-> FALSE,
             stored |-> TRUE]
    ELSE [fil |-> f, sig |-> <<>>, spec_edited |-> edited, stored |-> FALSE]

\* variant of store_entry: the flag is not reset after the entry is saved
store_entry_FlagKept(f, edited, text, range_idx) ==
    IF edited
    THEN LET v == safe_eval(text, f.f_S)
             f1 == [f EXCEPT !.f_S = v, !.T_S = Recip(v), !.f_max = v]
             r == freq_range(f1, range_idx, PyBool(FALSE))
         IN [fil |-> r.fil,
             sig |-> r.sig \o <<Msg("view_changed", "f_S")>>,
             spec_edited |-> edited,
             stored |-> TRUE]
    ELSE [fil |-> f, sig |-> <<>>, spec_edited |-> edited, stored |-> FALSE]

\* variant of store_entry: the text is evaluated without sign='pos'
store_entry_NoSign(f, edited, text, range_idx) ==
    IF edited
    THEN LET v == IF text.ok THEN text.val ELSE f.f_S
             f1 == [f EXCEPT !.f_S = v, !.T_S = Recip(v), !.f_max = v]
             r == freq_range(f1, range_idx, PyBool(FALSE))
         IN [fil |-> r.fil,
             sig |-> r.sig \o <<Msg("view_changed", "f_S")>>,
             spec_edited |-> FALSE,
             stored |-> TRUE]
    ELSE [fil |-> f, sig |-> <<>>, spec_edited |-> edited, stored |-> FALSE]

\* eventFilter._store_entry on dictionary f with the flag and the field text
store_entry(f, edited, text, range_idx) ==
    IF edited
    THEN LET v == safe_eval(text, f.f_S)
             f1 == [f EXCEPT !.f_S = v, !.T_S = Recip(v), !.f_max = v]
             r == freq_range(f1, range_idx, PyBool(FALSE))
         IN [fil |-> r.fil,
             sig |-> r.sig \o <<Msg("view_changed", "f_S")>>,
             spec_edited |-> FALSE,
             stored |-> TRUE]
    ELSE [fil |-> f, sig |-> <<>>, spec_edited |-> edited, stored |-> FALSE]

\* eventFilter, QEvent.FocusIn
FocusIn ==
    /\ ledF_S.visible
    /\ ~ledF_S.focus
    /\ spec_edited' = FALSE
    /\ ledF_S' = [ledF_S EXCEPT !.text = str(fil.f_S), !.focus = TRUE]
    /\ sig_tx' = <<>>
    /\ last' = Ev("FocusIn", "", FALSE, FALSE)
    /\ rt' = NoTrip
    /\ UNCHANGED <<fil, fs_old, cmbUnits, cmbFRange, butLock, butSort>>
    /\ LockHistory
    /\ History

\* eventFilter, QEvent.KeyPress of a key that edits the text: the filter sets
\* the flag, then the line edit changes its text
KeyPressChar(t) ==
    /\ ledF_S.focus
    /\ spec_edited' = TRUE
    /\ ledF_S' = [ledF_S EXCEPT !.text = t]
    /\ sig_tx' = <<>>
    /\ last' = Ev("KeyPress", "char", FALSE, FALSE)
    /\ rt' = NoTrip
    /\ UNCHANGED <<fil, fs_old, cmbUnits, cmbFRange, butLock, butSort>>
    /\ LockHistory
    /\ History

\* eventFilter, QEvent.KeyPress of Key_Return or Key_Enter
KeyPressEnter ==
    /\ ledF_S.focus
    /\ LET s == store_entry(fil, TRUE, ledF_S.text, cmbFRange)
       IN /\ fil' = s.fil
          /\ sig_tx' = s.sig
          /\ spec_edited' = s.spec_edited
          /\ last' = Ev("KeyPress", "Enter", s.stored, FALSE)
    /\ rt' = NoTrip
    /\ UNCHANGED <<fs_old, cmbUnits, cmbFRange, butLock, butSort, ledF_S>>
    /\ LockHistory
    /\ History

\* variant of KeyPressEscape: the flag set at the top of the KeyPress branch
\* is not cleared again
KeyPressEscape_FlagKept ==
    /\ ledF_S.focus
    /\ spec_edited' = TRUE
    /\ ledF_S' = [ledF_S EXCEPT !.text = str(fil.f_S)]
    /\ sig_tx' = <<>>
    /\ last' = Ev("KeyPress", "Escape", FALSE, FALSE)
    /\ rt' = NoTrip
    /\ UNCHANGED <<fil, fs_old, cmbUnits, cmbFRange, butLock, butSort>>
    /\ LockHistory
    /\ History

\* eventFilter, QEvent.KeyPress of Key_Escape
KeyPressEscape ==
    /\ ledF_S.focus
    /\ spec_edited' = FALSE
    /\ ledF_S' = [ledF_S EXCEPT !.text = str(fil.f_S)]
    /\ sig_tx' = <<>>
    /\ last' = Ev("KeyPress", "Escape", FALSE, FALSE)
    /\ rt' = NoTrip
    /\ UNCHANGED <<fil, fs_old, cmbUnits, cmbFRange, butLock, butSort>>
    /\ LockHistory
    /\ History

\* eventFilter, QEvent.FocusOut
FocusOut ==
    /\ ledF_S.focus
    /\ LET s == store_entry(fil, spec_edited, ledF_S.text, cmbFRange)
       IN /\ fil' = s.fil
          /\ sig_tx' = s.sig
          /\ spec_edited' = s.spec_edited
          /\ last' = Ev("FocusOut", "", s.stored, FALSE)
          /\ ledF_S' = [ledF_S EXCEPT !.text = FMT(s.fil.f_S), !.focus = FALSE]
    /\ rt' = NoTrip
    /\ UNCHANGED <<fs_old, cmbUnits, cmbFRange, butLock, butSort>>
    /\ LockHistory
    /\ History

\* QComboBox.findText / findData: index of the item, -1 when there is none
find(items, x) ==
    IF \E i \in 1..Len(items) : items[i] = x
    THEN (CHOOSE i \in 1..Len(items) : items[i] = x) - 1
    ELSE -1

\* variant of load_dict: the range combo box is left as it is
load_dict_RangeNotSet ==
    /\ ledF_S' = [ledF_S EXCEPT !.text = FMT(fil.f_S)]
    /\ cmbUnits' = find(f_units, fil.freq_specs_unit)
    /\ butSort' = fil.freq_specs_sort
    /\ sig_tx' = <<>>
    /\ last' = Ev("load_dict", "", FALSE, FALSE)
    /\ rt' = NoTrip
    /\ UNCHANGED <<fil, fs_old, spec_edited, butLock, cmbFRange>>
    /\ LockHistory
    /\ History

\* load_dict: controls are set from the dictionary with signals blocked
load_dict ==
    /\ ledF_S' = [ledF_S EXCEPT !.text = FMT(fil.f_S)]
    /\ cmbUnits' = find(f_units, fil.freq_specs_unit)
    /\ cmbFRange' = find(fRanges, fil.freqSpecsRangeType)
    /\ butSort' = fil.freq_specs_sort
    /\ sig_tx' = <<>>
    /\ last' = Ev("load_dict", "", FALSE, FALSE)
    /\ rt' = NoTrip
    /\ UNCHANGED <<fil, fs_old, spec_edited, butLock>>
    /\ LockHistory
    /\ History

Next ==
    \/ \E idx \in 0..6 : SelectUnit(idx)
    \/ LockClick
    \/ MainUpdateUI
    \/ \E idx \in 0..2 : SelectRange(idx)
    \/ store_sort_flag
    \/ FocusIn
    \/ \E t \in TypedTexts : KeyPressChar(t)
    \/ KeyPressEnter
    \/ KeyPressEscape
    \/ FocusOut
    \/ load_dict

Spec == Init /\ [][Next]_vars

\* ------------------------------------------------------------ properties
Unit == f_units[cmbUnits + 1]

FUnitMsg == Msg("view_changed", "f_unit")

FSMsg == Msg("view_changed", "f_S")

UserEvent ==
    \/ last.op = "update_UI" /\ last.arg \in {"cmbUnits", "butLock"}
    \/ last.op \in {"_freq_range", "_store_sort_flag", "FocusIn", "KeyPress", "FocusOut"}

\* the text in the field denotes a positive number
PositiveText == ledF_S.text.ok /\ ledF_S.text.val > 0

\* C1 (as claimed): after any sequence of completed user events freqSpecsRange
\* is the function of (freqSpecsRangeType, f_max): [0, f_max] for whole,
\* [-f_max/2, f_max/2] for sym, [0, f_max/2] otherwise.  Selecting a
\* normalized unit changes f_max and raises before _freq_range runs.
C1_RangeFollowsFmax ==
    UserEvent =>
        fil.freqSpecsRange =
            IF fil.freqSpecsRangeType = "whole" THEN <<(<<0, 1>>), (<<fil.f_max, 1>>)>>
            ELSE IF fil.freqSpecsRangeType = "sym"
            THEN <<Neg(Half(fil.f_max)), Half(fil.f_max)>>
            ELSE <<(<<0, 1>>), Half(fil.f_max)>>

\* C2 (as claimed): for each of the seven units update_UI updates
\* freq_specs_unit, plt_fUnit, plt_tUnit, plt_fLabel, plt_tLabel and
\* f_S_scale, recomputes the axis range without an f_range notification and
\* emits exactly one view_changed:'f_unit'.  For k, f_S and f_Ny the handler
\* raises at the plt_tUnit update.
C2_UpdateUIComplete ==
    last.op = "update_UI" =>
        /\ fil.freq_specs_unit = Unit
        /\ fil.plt_fUnit = plt_f_unit(Unit)
        /\ fil.plt_tUnit = t_units[cmbUnits + 1]
        /\ fil.plt_fLabel = f_label(Unit)
        /\ fil.plt_tLabel = t_label(cmbUnits)
        /\ fil.f_S_scale = f_S_scale(Unit)
        /\ fil.freqSpecsRangeType = fRanges[cmbFRange + 1]
        /\ fil.freqSpecsRange = f_lim(fil.freqSpecsRangeType, fil.f_max)
        /\ sig_tx = <<FUnitMsg>>

\* C3: with an absolute unit selected and f_S = v, selecting a normalized
\* unit and then the original absolute unit again restores f_S = v and
\* f_max = v.
C3_RoundTrip ==
    rt.phase = 2 => fil.f_S = rt.f_S /\ fil.f_max = rt.f_S

C3_Witness ==
    /\ rt.phase = 2
    /\ rt.f_S = BigTyped
    /\ Unit = "kHz"
    /\ fil.f_S = BigTyped

\* C4: a commit of the field (edited flag set, FocusOut or Enter/Return) with
\* a text that evaluates to a positive number v writes f_S = v, T_S = 1/v,
\* f_max = v, recomputes freqSpecsRange for the new f_max without an f_range
\* notification, and emits exactly one view_changed:'f_S'.
C4_CommitPositive ==
    [][(last'.stored /\ PositiveText) =>
          LET v == ledF_S.text.val
          IN /\ fil'.f_S = v
             /\ fil'.T_S = <<1, v>>
             /\ fil'.f_max = v
             /\ fil'.freqSpecsRangeType = fRanges[cmbFRange + 1]
             /\ fil'.freqSpecsRange =
                    IF fil'.freqSpecsRangeType = "whole" THEN <<(<<0, 1>>), (<<v, 1>>)>>
                    ELSE IF fil'.freqSpecsRangeType = "sym" THEN <<Neg(Half(v)), Half(v)>>
                    ELSE <<(<<0, 1>>), Half(v)>>
             /\ sig_tx' = <<FSMsg>>]_vars

C4_Witness ==
    /\ last.op = "FocusOut"
    /\ last.stored
    /\ fil.f_S = BigTyped
    /\ fil.f_max = BigTyped
    /\ fil.freqSpecsRange = <<Neg(Half(BigTyped)), Half(BigTyped)>>
    /\ sig_tx = <<FSMsg>>

\* C5: a commit with a text that is unparseable or evaluates to a
\* non-positive number leaves f_S, T_S, f_max and freqSpecsRange as they
\* were before the commit.
C5_CommitInvalid ==
    [][(last'.stored /\ ~PositiveText) =>
          /\ fil'.f_S = fil.f_S
          /\ fil'.T_S = fil.T_S
          /\ fil'.f_max = fil.f_max
          /\ fil'.freqSpecsRange = fil.freqSpecsRange]_vars

C5_Witness ==
    /\ last.op = "KeyPress"
    /\ last.arg = "Enter"
    /\ last.stored
    /\ ~ledF_S.text.ok
    /\ fil.f_S = BigTyped

\* C6 (as claimed): a lock click that checks the button copies f_S into
\* f_S_locked, one that unchecks it sets f_S_locked to None, and each click
\* emits view_changed:'f_unit'.  The click is connected to update_UI, which
\* never writes f_S_locked; lock_fs is connected to nothing.
C6_LockClickStores ==
    (last.op = "update_UI" /\ last.arg = "butLock") =>
        /\ butLock => fil.f_S_locked = <<fil.f_S>>
        /\ ~butLock => fil.f_S_locked = None
        /\ sig_tx = <<FUnitMsg>>

\* C7 (as claimed): f_S_locked is None whenever the lock button is unchecked
\* and equals the f_S of the moment the lock was engaged whenever it is
\* checked.
C7_LockedInvariant ==
    /\ ~butLock => fil.f_S_locked = None
    /\ butLock => lockedOk

\* C8 (as claimed): in every reachable state T_S equals 1/f_S.
C8_TsIsRecip ==
    fil.T_S = <<1, fil.f_S>>

\* C8 (amended): T_S equals 1/f_S in every reachable state whose unit is not
\* f_Ny; with unit f_Ny, f_S = 2 and T_S = 1.
C8_TsIsRecipExceptNy ==
    IF fil.freq_specs_unit = "f_Ny"
    THEN fil.f_S = 2 /\ fil.T_S = <<1, 1>>
    ELSE fil.T_S = <<1, fil.f_S>>

C8_Witness ==
    /\ last.op = "update_UI"
    /\ last.arg = "cmbUnits"
    /\ fil.freq_specs_unit = "MHz"
    /\ fs_old = BigTyped
    /\ fil.T_S = <<1, BigTyped>>

FixedPairs == {<<1, 1>>, <<2, 2>>, <<1, N_FFT>>}

\* C9 (as claimed): freq_specs_unit is normalized if and only if
\* (f_S, f_max) is one of (1,1), (2,2), (1,N_FFT).
C9_NormalizedIffPairs ==
    fil.freq_specs_unit \in Normalized <=> <<fil.f_S, fil.f_max>> \in FixedPairs

\* C9 (amended): whenever freq_specs_unit is normalized, (f_S, f_max) is one
\* of (1,1), (2,2), (1,N_FFT); an absolute unit can have one of these pairs
\* too.
C9_NormalizedImpliesPairs ==
    fil.freq_specs_unit \in Normalized => <<fil.f_S, fil.f_max>> \in FixedPairs

C9_Witness ==
    /\ last.op = "update_UI"
    /\ fil.freq_specs_unit = "f_Ny"
    /\ fs_old = 1
    /\ <<fil.f_S, fil.f_max>> = <<2, 2>>

\* C10: selecting a normalized unit sets (f_S, f_max, T_S) to (1, 1, 1) for
\* f_S, (2, 2, 1) for f_Ny and (1, N_FFT, 1) for k, whatever the state before.
C10_NormalizedTriple ==
    (last.op = "update_UI" /\ last.arg = "cmbUnits" /\ Unit \in Normalized) =>
        <<fil.f_S, fil.f_max, fil.T_S>> =
            IF Unit = "f_S" THEN <<1, 1, (<<1, 1>>)>>
            ELSE IF Unit = "f_Ny" THEN <<2, 2, (<<1, 1>>)>>
            ELSE <<1, N_FFT, (<<1, 1>>)>>

C10_Witness ==
    /\ last.op = "update_UI"
    /\ last.arg = "cmbUnits"
    /\ Unit = "k"
    /\ fs_old = BigTyped
    /\ fil.f_max = N_FFT

FRangeMsg == Msg("view_changed", "f_range")

FSortMsg == Msg("specs_changed", "f_sort")

Emitted(m) == \E i \in DOMAIN sig_tx : sig_tx[i] = m

\* C11 (as claimed): with initial f_S = 1000, selecting f_Ny yields f_S = 2,
\* f_max = 2, T_S = 1; then selecting Hz yields f_S = 1000, f_max = 1000,
\* T_S = 0.001, f_S_scale = 1; then selecting range type sym yields
\* freqSpecsRange = [-500, 500].  The constructor has already selected f_S,
\* so the f_Ny selection stores fs_old = 1 and Hz restores 1.
C11_ExampleScenario ==
    /\ hist.sc = 1 => <<fil.f_S, fil.f_max, fil.T_S>> = <<2, 2, (<<1, 1>>)>>
    /\ hist.sc = 2 => /\ <<fil.f_S, fil.f_max, fil.T_S>> = <<1000, 1000, (<<1, 1000>>)>>
                      /\ fil.f_S_scale = 1
    /\ hist.sc = 3 => fil.freqSpecsRange = <<(<<0 - 500, 1>>), (<<500, 1>>)>>

\* C12: Escape in the field while editing clears the edited flag and shows
\* the full-precision f_S again, changes no key of the dictionary and emits
\* nothing; a FocusOut that follows with no further key press commits nothing.
C12_EscapeDiscards ==
    [][/\ (last'.op = "KeyPress" /\ last'.arg = "Escape") =>
              /\ ~spec_edited'
              /\ ledF_S'.text = [repr |-> "str", ok |-> TRUE, val |-> fil.f_S]
              /\ fil' = fil
              /\ sig_tx' = <<>>
       /\ (hist.esc = 1 /\ last'.op = "FocusOut") =>
              /\ fil' = fil
              /\ sig_tx' = <<>>]_vars

C12_Witness ==
    /\ hist.esc = 2
    /\ last.op = "FocusOut"
    /\ ~last.stored
    /\ fil.f_S = BigTyped
    /\ ledF_S.text.val = Round3(BigTyped)

\* C13: a click on the sort button writes freq_specs_sort to the new checked
\* state and emits exactly one specs_changed:'f_sort' when the new state is
\* checked, nothing when it is unchecked.
C13_SortFlag ==
    last.op = "_store_sort_flag" =>
        /\ fil.freq_specs_sort = butSort
        /\ butSort => sig_tx = <<FSortMsg>>
        /\ ~butSort => sig_tx = <<>>

C13_Witness ==
    /\ last.op = "_store_sort_flag"
    /\ ~butSort
    /\ ~fil.freq_specs_sort
    /\ sig_tx = <<>>

\* C14: load_dict sets the unit choice, the range-type choice, the sort
\* toggle and the f_S text from the dictionary, emits nothing and leaves the
\* dictionary and fs_old unchanged.
C14_LoadDict ==
    [][last'.op = "load_dict" =>
          /\ f_units[cmbUnits' + 1] = fil.freq_specs_unit
          /\ fRanges[cmbFRange' + 1] = fil.freqSpecsRangeType
          /\ butSort' = fil.freq_specs_sort
          /\ ledF_S'.text = [repr |-> "FMT", ok |-> TRUE, val |-> Round3(fil.f_S)]
          /\ sig_tx' = <<>>
          /\ fil' = fil
          /\ fs_old' = fs_old]_vars

C14_Witness ==
    /\ last.op = "load_dict"
    /\ fil.freqSpecsRangeType = "whole"
    /\ cmbFRange = 1
    /\ fil.freqSpecsRange = <<(<<0, 1>>), (<<1000, 1>>)>>
    /\ sig_tx = <<>>

\* C15: view_changed:'f_range' is emitted exactly when the user changes the
\* range-type choice, once per change and for every index (0 too); a unit
\* selection, a lock click or a commit never emits it.
C15_RangeNotification ==
    /\ Emitted(FRangeMsg) <=> last.op = "_freq_range"
    /\ last.op = "_freq_range" => sig_tx = <<FRangeMsg>>

C15_Witness ==
    /\ last.op = "_freq_range"
    /\ cmbFRange = 0
    /\ fil.freqSpecsRangeType = "half"
    /\ sig_tx = <<FRangeMsg>>

\* C16: FocusOut commits if and only if the edited flag is set at that
\* moment, every commit clears the flag, FocusIn always clears it, and after
\* Enter/Return has committed, a FocusOut with no key press in between writes
\* nothing and emits no second view_changed:'f_S'.
C16_FieldProtocol ==
    [][/\ last'.op = "FocusOut" =>
              /\ (\E i \in DOMAIN sig_tx' : sig_tx'[i] = FSMsg) <=> spec_edited
              /\ ~spec_edited => fil' = fil
       /\ (\E i \in DOMAIN sig_tx' : sig_tx'[i] = FSMsg) => ~spec_edited'
       /\ last'.op = "FocusIn" => ~spec_edited'
       /\ (hist.ent = 1 /\ last'.op = "FocusOut") =>
              /\ fil' = fil
              /\ sig_tx' = <<>>]_vars

C16_Witness ==
    /\ hist.ent = 2
    /\ last.op = "FocusOut"
    /\ sig_tx = <<>>
    /\ fil.f_S = BigTyped
    /\ fil.T_S = <<1, BigTyped>>

\* C17 (as claimed): after a unit selection plt_fUnit is the selected unit
\* (f_S for k), plt_tUnit is the time unit paired with it (empty for k, f_S,
\* f_Ny) and the labels are those of the selected unit.  A normalized
\* selection raises before plt_tUnit and the labels are written.
C17_PlotUnitsFollowSelection ==
    (last.op = "update_UI" /\ last.arg = "cmbUnits") =>
        /\ fil.plt_fUnit = (IF fil.freq_specs_unit = "k" THEN "f_S" ELSE fil.freq_specs_unit)
        /\ fil.plt_tUnit = t_units[cmbUnits + 1]
        /\ fil.plt_fLabel = f_label(fil.freq_specs_unit)
        /\ fil.plt_tLabel = t_label(cmbUnits)

\* C18 (as claimed): after an absolute unit with f_S = v, any non-empty
\* sequence of normalized selections followed by an absolute selection gives
\* f_S = f_max = v again.  Every normalized selection overwrites fs_old with
\* the f_S of that moment, the second one with a normalized 1 or 2.
C18_RestoreSurvivesChain ==
    hist.chain.phase = 2 =>
        fil.f_S = hist.chain.f_S /\ fil.f_max = hist.chain.f_S

C20_Positive ==
    fil.f_S > 0 /\ fs_old > 0

C20_Witness ==
    /\ last.op = "KeyPress"
    /\ last.arg = "Enter"
    /\ last.stored
    /\ ledF_S.text.ok
    /\ ledF_S.text.val = 0
    /\ fil.f_S = BigTyped
====
